---- MODULE Spec2Model ----
(***************************************************************************)
(* Model of src/main.py: the generate -> judge -> revise loop of           *)
(* generate_with_judge, together with the response parsing of judge_story  *)
(* and the feedback payload of revise_story.                               *)
(*                                                                         *)
(* Scores are kept in tenths (8.5 is 85) so that they stay integers.       *)
(* A raw response of the chat service is a sequence of tokens: prose       *)
(* characters, "{" and "}", and the members (key, value) of a JSON object. *)
(* A JSON value is a tagged record [ty, n]: a number n, a string that      *)
(* float() reads as n ("numstr"), another string ("str"), null, or a list  *)
(* of n items.                                                             *)
(***************************************************************************)
EXTENDS Integers, Sequences, FiniteSets, TLC

VARIABLES user_request, min_score, max_rounds, pc, r, story, storyVer,
          result, ret, fault, calls, lastParsed, sent, reply

vars == <<user_request, min_score, max_rounds, pc, r, story, storyVer,
          result, ret, fault, calls, lastParsed, sent, reply>>

(* ------------------------------ bounds -------------------------------- *)
MaxRounds == 3

MaxCalls == 2 * MaxRounds + 3

MaxWrap == 2

(* ------------------------- program constants -------------------------- *)
DefaultMinScore == 85

DiagChars == 300

KeepLengthTargetWords == 550

(* --------------------------- JSON values ------------------------------ *)
Val(ty, n) == [ty |-> ty, n |-> n]

Null == Val("null", 0)

Num(n) == Val("num", n)

List(n) == Val("list", n)

EmptyDict == [k \in {} |-> Null]

Prose == [t |-> "prose", k |-> "", v |-> Null]

LBrace == [t |-> "{", k |-> "", v |-> Null]

RBrace == [t |-> "}", k |-> "", v |-> Null]

Pair(k, v) == [t |-> "pair", k |-> k, v |-> v]

(* dict.get(key, default) *)
Get(d, k, default) == IF k \in DOMAIN d THEN d[k] ELSE default

(* Python truthiness of a JSON value (the operand of "not") *)
Truthy(v) ==
  CASE v.ty = "null" -> FALSE
    [] v.ty = "num" -> v.n # 0
    [] v.ty = "list" -> v.n > 0
    [] v.ty = "numstr" -> TRUE
    [] v.ty = "str" -> v.n > 0
    [] v.ty = "obj" -> v.n > 0
    [] OTHER -> TRUE

(* float(v): ok with the number, or the exception float() raises *)
Float(v) ==
  CASE v.ty = "num" -> [ok |-> TRUE, n |-> v.n, kind |-> ""]
    [] v.ty = "numstr" -> [ok |-> TRUE, n |-> v.n, kind |-> ""]
    [] v.ty = "str" -> [ok |-> FALSE, n |-> 0, kind |-> "ValueError"]
    [] OTHER -> [ok |-> FALSE, n |-> 0, kind |-> "TypeError"]

(* ------------------------ judge_story parsing ------------------------- *)
Indices(raw, t) == {i \in DOMAIN raw : raw[i].t = t}

MinOf(S) == CHOOSE i \in S : \A j \in S : i <= j

MaxOf(S) == CHOOSE i \in S : \A j \in S : i >= j

(* re.search(r"\{.*\}", raw, re.DOTALL): leftmost "{", greedy to last "}" *)
HasMatch(raw) ==
  /\ Indices(raw, "{") # {}
  /\ \E j \in Indices(raw, "}") : j > MinOf(Indices(raw, "{"))

(* variant: a lazy match, from the first "{" to the first "}" after it *)
MatchGroupLazy(raw) ==
  SubSeq(raw, MinOf(Indices(raw, "{")),
         MinOf({j \in Indices(raw, "}") : j > MinOf(Indices(raw, "{"))}))

MatchGroup(raw) ==
  SubSeq(raw, MinOf(Indices(raw, "{")), MaxOf(Indices(raw, "}")))

Members(span) == SubSeq(span, 2, Len(span) - 1)

(* json.loads accepts the span iff it is one object: members only *)
JsonValid(span) == \A i \in DOMAIN Members(span) : Members(span)[i].t = "pair"

RECURSIVE ObjectOf(_)
ObjectOf(ms) ==
  IF ms = <<>> THEN EmptyDict
  ELSE LET d == ObjectOf(SubSeq(ms, 1, Len(ms) - 1))
           m == ms[Len(ms)]
       IN [k \in DOMAIN d \cup {m.k} |-> IF k = m.k THEN m.v ELSE d[k]]

JsonLoads(span) == ObjectOf(Members(span))

RequiredKeys == {"overall_score", "suggestions", "scores"}

(* variant: the required-key assertion is not enforced *)
HasRequiredKeysUnchecked(data) == TRUE

HasRequiredKeys(data) == RequiredKeys \subseteq DOMAIN data

Prefix(raw, n) == SubSeq(raw, 1, IF Len(raw) < n THEN Len(raw) ELSE n)

(* variant: a parse failure is swallowed and an empty object returned *)
RaiseSwallowed(kind, msg) == [ok |-> TRUE, data |-> EmptyDict, kind |-> "", msg |-> <<>>]

Raise(kind, msg) == [ok |-> FALSE, data |-> EmptyDict, kind |-> kind, msg |-> msg]

(* lines 73-78 of judge_story, applied to the text chat returned *)
ParseVerdict(raw) ==
  IF ~HasMatch(raw) THEN Raise("ValueError", Prefix(raw, DiagChars))
  ELSE IF ~JsonValid(MatchGroup(raw)) THEN Raise("JSONDecodeError", <<>>)
  ELSE IF ~HasRequiredKeys(JsonLoads(MatchGroup(raw))) THEN Raise("AssertionError", <<>>)
  ELSE [ok |-> TRUE, data |-> JsonLoads(MatchGroup(raw)), kind |-> "", msg |-> <<>>]

(* variant: a missing blocking_issues key is passed on as null *)
FeedbackNoDefault(judge_json) ==
  [overall_score |-> Get(judge_json, "overall_score", Null),
   suggestions |-> Get(judge_json, "suggestions", List(0)),
   blocking_issues |-> Get(judge_json, "blocking_issues", Null),
   keep_length_target_words |-> Num(KeepLengthTargetWords)]

(* feedback payload of revise_story *)
Feedback(judge_json) ==
  [overall_score |-> Get(judge_json, "overall_score", Null),
   suggestions |-> Get(judge_json, "suggestions", List(0)),
   blocking_issues |-> Get(judge_json, "blocking_issues", List(0)),
   keep_length_target_words |-> Num(KeepLengthTargetWords)]

NoFeedback ==
  [overall_score |-> Null, suggestions |-> Null, blocking_issues |-> Null,
   keep_length_target_words |-> Null]

(* the user message each stage hands to chat: the stage, the request, the
   candidate and the feedback payload it embeds *)
DraftMessage(request) ==
  [fn |-> "generate_initial_story", req |-> request, story |-> "",
   feedback |-> NoFeedback]

JudgeMessage(candidate) ==
  [fn |-> "judge_story", req |-> "", story |-> candidate, feedback |-> NoFeedback]

(* variant: the candidate is passed where the request belongs *)
ReviseMessageWrongRequest(candidate, judge_json, request) ==
  [fn |-> "revise_story", req |-> candidate, story |-> candidate,
   feedback |-> Feedback(judge_json)]

ReviseMessage(candidate, judge_json, request) ==
  [fn |-> "revise_story", req |-> request, story |-> candidate,
   feedback |-> Feedback(judge_json)]

NoMessage == [fn |-> "", req |-> "", story |-> "", feedback |-> NoFeedback]

(* what chat returned last: a text (draft, revision) or a judge response *)
TextReply(text) == [text |-> text, raw |-> <<>>]

RawReply(raw) == [text |-> "", raw |-> raw]

NoReply == [text |-> "", raw |-> <<>>]

(* ------------------- inputs: what the service returns ----------------- *)
Texts == {"s1", "s2"}

Requests == {"u1", "u2"}

MinScores == {DefaultMinScore, 90}

ScoreVals == {Num(50), Num(85), Num(90), Num(120), Val("numstr", 90),
              Val("str", 1), Null}

BlockingVals == {List(0), List(1), Null}

Obj(ms) == <<LBrace>> \o ms \o <<RBrace>>

Rubric == <<Pair("scores", Val("obj", 6)), Pair("suggestions", List(1))>>

Objects ==
  {Obj(<<Pair("overall_score", s)>> \o Rubric) : s \in ScoreVals}
  \cup {Obj(<<Pair("overall_score", s)>> \o Rubric \o <<Pair("blocking_issues", b)>>) :
          s \in ScoreVals, b \in BlockingVals}
  \cup {Obj(Rubric),
        Obj(<<Pair("overall_score", Num(90)), Pair("scores", Val("obj", 6))>>),
        Obj(<<Pair("overall_score", Num(90)), Pair("suggestions", List(0))>>)}

Malformed ==
  {<<>>, <<Prose>>, <<LBrace>>, <<RBrace, Prose, LBrace>>,
   <<LBrace, Prose, RBrace>>,
   Obj(<<Pair("overall_score", Num(90))>> \o Rubric) \o <<Prose>>
     \o Obj(<<Pair("overall_score", Num(50))>> \o Rubric)}

Wrapped ==
  {<<Prose>> \o Obj(<<Pair("overall_score", s)>> \o Rubric) \o <<Prose, Prose>> :
     s \in {Num(50), Num(90)}}

RawResponses == Objects \cup Wrapped \cup Malformed

(* judge_story on each response the service can give *)
Judged == [raw \in RawResponses |-> ParseVerdict(raw)]

(* --------------------------- the controller --------------------------- *)
NoVerdict == [data |-> EmptyDict, of |-> -1]

NoRet == [state |-> "NONE", story |-> "", ver |-> -1, verdict |-> NoVerdict, rounds |-> 0]

NoFault == [kind |-> "", msg |-> <<>>]

ServiceFault == [kind |-> "ServiceFault", msg |-> <<>>]

(* one entry of the history of service-level calls: the stage called, the
   version of the candidate passed, the version the verdict passed was
   computed on, the request passed, and how the call ended *)
Call(fn, ver, of, req, out) ==
  [fn |-> fn, ver |-> ver, of |-> of, req |-> req, out |-> out]

(* a verdict meets the acceptance threshold and reports no blocking issue *)
Passing(d, ms) ==
  /\ "overall_score" \in DOMAIN d
  /\ d["overall_score"].ty \in {"num", "numstr"}
  /\ d["overall_score"].n >= ms
  /\ \/ "blocking_issues" \notin DOMAIN d
     \/ d["blocking_issues"] \in {List(0), Null}

Outcome(d, ms) == IF Passing(d, ms) THEN "pass" ELSE "fail"

(* variant: the body runs once before the bound is looked at *)
InRangeAtLeastOnce(i, n) == i = 1 \/ (i >= 1 /\ i < n + 1)

(* variants: one round too many; a loop without an upper bound *)
InRangeInclusive(i, n) == i >= 1 /\ i <= n + 1

InRangeUnbounded(i, n) == i >= 1

(* membership of i in range(1, max_rounds + 1) *)
InRange(i, n) == i >= 1 /\ i < n + 1

(* score = float(result.get("overall_score", 0)) *)
Score(data) == Float(Get(data, "overall_score", Num(0)))

(* variants: strict comparison; the blocking issues are not consulted *)
AcceptsStrict(data, ms) ==
  Score(data).n > ms /\ ~Truthy(Get(data, "blocking_issues", Null))

AcceptsScoreOnly(data, ms) == Score(data).n >= ms

(* score >= min_score and not result.get("blocking_issues") *)
Accepts(data, ms) ==
  Score(data).n >= ms /\ ~Truthy(Get(data, "blocking_issues", Null))

(* variant: the revision is left out *)
NeedsRevisionNever(i, n) == FALSE

(* variant: the last round skips the revision *)
NeedsRevisionBeforeLast(i, n) == i < n

(* the loop body calls revise_story whenever it has not returned *)
NeedsRevision(i, n) == TRUE

(* variant: zero-based round count *)
AcceptResultZeroBased(s, ver, verdict, i) ==
  [state |-> "ACCEPTED", story |-> s, ver |-> ver, verdict |-> verdict, rounds |-> i - 1]

(* return story, result, _ *)
AcceptResult(s, ver, verdict, i) ==
  [state |-> "ACCEPTED", story |-> s, ver |-> ver, verdict |-> verdict, rounds |-> i]

(* variants: the in-loop verdict is returned; the evaluations are counted *)
ExhaustedResultStale(s, ver, inloop, final, n) ==
  [state |-> "EXHAUSTED", story |-> s, ver |-> ver, verdict |-> inloop, rounds |-> n]

ExhaustedResultCountsEvals(s, ver, inloop, final, n) ==
  [state |-> "EXHAUSTED", story |-> s, ver |-> ver, verdict |-> final, rounds |-> n + 1]

(* variant: a passing final verdict is counted as one more accepted round *)
ExhaustedResultChecked(s, ver, inloop, final, n) ==
  [state |-> "EXHAUSTED", story |-> s, ver |-> ver, verdict |-> final,
   rounds |-> IF Score(final.data).ok /\ Score(final.data).n >= min_score
                   /\ ~Truthy(Get(final.data, "blocking_issues", Null))
              THEN n + 1 ELSE n]

(* return story, final_result, max_rounds *)
ExhaustedResult(s, ver, inloop, final, n) ==
  [state |-> "EXHAUSTED", story |-> s, ver |-> ver, verdict |-> final, rounds |-> n]

Init ==
  /\ user_request \in Requests
  /\ min_score \in MinScores
  /\ max_rounds \in -1..MaxRounds
  /\ pc = "draft"
  /\ r = 0
  /\ story = ""
  /\ storyVer = 0
  /\ result = NoVerdict
  /\ ret = NoRet
  /\ fault = NoFault
  /\ calls = <<>>
  /\ lastParsed = EmptyDict
  /\ sent = NoMessage
  /\ reply = NoReply

Params == <<user_request, min_score, max_rounds>>

(* what follows once the candidate of round i is replaced, or the loop is entered *)
Advance(i) ==
  IF InRange(i, max_rounds) THEN r' = i /\ pc' = "judge"
  ELSE r' = r /\ pc' = "final"

(* story = generate_initial_story(user_request) *)
Draft ==
  /\ pc = "draft" /\ Len(calls) < MaxCalls
  /\ sent' = DraftMessage(user_request)
  /\ \E text \in Texts : reply' = TextReply(text)
  /\ story' = reply'.text
  /\ storyVer' = storyVer + 1
  /\ calls' = Append(calls, Call("generate_initial_story", storyVer, -1, user_request, "ok"))
  /\ Advance(1)
  /\ UNCHANGED <<Params, result, ret, fault, lastParsed>>

DraftFault ==
  /\ pc = "draft" /\ Len(calls) < MaxCalls
  /\ sent' = DraftMessage(user_request) /\ reply' = NoReply
  /\ calls' = Append(calls, Call("generate_initial_story", storyVer, -1, user_request, "fault"))
  /\ pc' = "fault" /\ fault' = ServiceFault
  /\ UNCHANGED <<Params, r, story, storyVer, result, ret, lastParsed>>

(* result = judge_story(story), inside the loop *)
Judge ==
  /\ pc = "judge" /\ Len(calls) < MaxCalls
  /\ \E raw \in RawResponses :
       /\ Judged[raw].ok
       /\ reply' = RawReply(raw)
       /\ result' = [data |-> Judged[raw].data, of |-> storyVer]
       /\ lastParsed' = Judged[raw].data
       /\ calls' = Append(calls, Call("judge_story", storyVer, -1, "",
                                      Outcome(Judged[raw].data, min_score)))
  /\ sent' = JudgeMessage(story)
  /\ pc' = "check"
  /\ UNCHANGED <<Params, r, story, storyVer, ret, fault>>

JudgeFault ==
  /\ pc = "judge" /\ Len(calls) < MaxCalls
  /\ sent' = JudgeMessage(story)
  /\ \/ fault' = ServiceFault /\ reply' = NoReply
     \/ \E raw \in RawResponses :
          /\ ~Judged[raw].ok
          /\ reply' = RawReply(raw)
          /\ fault' = [kind |-> Judged[raw].kind, msg |-> Judged[raw].msg]
  /\ calls' = Append(calls, Call("judge_story", storyVer, -1, "", "fault"))
  /\ pc' = "fault"
  /\ UNCHANGED <<Params, r, story, storyVer, result, ret, lastParsed>>

(* lines 104-106: the acceptance check on the verdict of this round *)
Check ==
  /\ pc = "check"
  /\ Score(result.data).ok
  /\ IF Accepts(result.data, min_score)
     THEN /\ ret' = AcceptResult(story, storyVer, result, r)
          /\ pc' = "returned"
          /\ r' = r
     ELSE /\ ret' = ret
          /\ IF NeedsRevision(r, max_rounds) THEN pc' = "revise" /\ r' = r
             ELSE Advance(r + 1)
  /\ UNCHANGED <<Params, story, storyVer, result, fault, calls, lastParsed, sent, reply>>

(* float() raises on a score that is no number *)
CheckFault ==
  /\ pc = "check"
  /\ ~Score(result.data).ok
  /\ pc' = "fault"
  /\ fault' = [kind |-> Score(result.data).kind, msg |-> <<>>]
  /\ UNCHANGED <<Params, r, story, storyVer, result, ret, calls, lastParsed, sent, reply>>

(* story = revise_story(story, result, user_request) *)
Revise ==
  /\ pc = "revise" /\ Len(calls) < MaxCalls
  /\ sent' = ReviseMessage(story, result.data, user_request)
  /\ \E text \in Texts : reply' = TextReply(text)
  /\ story' = reply'.text
  /\ storyVer' = storyVer + 1
  /\ calls' = Append(calls, Call("revise_story", storyVer, result.of, user_request, "ok"))
  /\ Advance(r + 1)
  /\ UNCHANGED <<Params, result, ret, fault, lastParsed>>

ReviseFault ==
  /\ pc = "revise" /\ Len(calls) < MaxCalls
  /\ sent' = ReviseMessage(story, result.data, user_request) /\ reply' = NoReply
  /\ calls' = Append(calls, Call("revise_story", storyVer, result.of, user_request, "fault"))
  /\ pc' = "fault" /\ fault' = ServiceFault
  /\ UNCHANGED <<Params, r, story, storyVer, result, ret, lastParsed>>

(* final_result = judge_story(story); return story, final_result, max_rounds *)
FinalJudge ==
  /\ pc = "final" /\ Len(calls) < MaxCalls
  /\ \E raw \in RawResponses :
       /\ Judged[raw].ok
       /\ reply' = RawReply(raw)
       /\ ret' = ExhaustedResult(story, storyVer, result,
                                 [data |-> Judged[raw].data, of |-> storyVer],
                                 max_rounds)
       /\ lastParsed' = Judged[raw].data
       /\ calls' = Append(calls, Call("judge_story", storyVer, -1, "",
                                      Outcome(Judged[raw].data, min_score)))
  /\ sent' = JudgeMessage(story)
  /\ pc' = "returned"
  /\ UNCHANGED <<Params, r, story, storyVer, result, fault>>

FinalJudgeFault ==
  /\ pc = "final" /\ Len(calls) < MaxCalls
  /\ sent' = JudgeMessage(story)
  /\ \/ fault' = ServiceFault /\ reply' = NoReply
     \/ \E raw \in RawResponses :
          /\ ~Judged[raw].ok
          /\ reply' = RawReply(raw)
          /\ fault' = [kind |-> Judged[raw].kind, msg |-> Judged[raw].msg]
  /\ calls' = Append(calls, Call("judge_story", storyVer, -1, "", "fault"))
  /\ pc' = "fault"
  /\ UNCHANGED <<Params, r, story, storyVer, result, ret, lastParsed>>

Next ==
  \/ Draft \/ DraftFault
  \/ Judge \/ JudgeFault
  \/ Check \/ CheckFault
  \/ Revise \/ ReviseFault
  \/ FinalJudge \/ FinalJudgeFault

Spec == Init /\ [][Next]_vars

(* every service call returns or faults, and the controller keeps running *)
FairSpec == Spec /\ WF_vars(Next)

(* ---------------- judge_story's parsing, taken by itself -------------- *)
SeqsUpTo(S, n) == UNION {[1..k -> S] : k \in 0..n}

(* text the service may put around (or instead of) the object *)
Wraps == SeqsUpTo({Prose, LBrace, RBrace}, MaxWrap)

ParseInputs ==
  {pre \o core \o post : pre \in Wraps, core \in RawResponses, post \in Wraps}

ParseInit ==
  /\ user_request \in Requests
  /\ min_score = DefaultMinScore
  /\ max_rounds = 1
  /\ pc = "parse"
  /\ r = 1
  /\ story \in Texts
  /\ storyVer = 1
  /\ result = NoVerdict
  /\ ret = NoRet
  /\ fault = NoFault
  /\ calls = <<>>
  /\ lastParsed = EmptyDict
  /\ sent = JudgeMessage(story)
  /\ reply \in {RawReply(raw) : raw \in ParseInputs}

(* lines 73-78 return data *)
ParseOk ==
  /\ pc = "parse"
  /\ ParseVerdict(reply.raw).ok
  /\ lastParsed' = ParseVerdict(reply.raw).data
  /\ pc' = "parsed"
  /\ UNCHANGED <<Params, r, story, storyVer, result, ret, fault, calls, sent, reply>>

(* lines 73-78 raise *)
ParseFail ==
  /\ pc = "parse"
  /\ ~ParseVerdict(reply.raw).ok
  /\ fault' = [kind |-> ParseVerdict(reply.raw).kind, msg |-> ParseVerdict(reply.raw).msg]
  /\ pc' = "fault"
  /\ UNCHANGED <<Params, r, story, storyVer, result, ret, calls, lastParsed, sent, reply>>

ParseNext == ParseOk \/ ParseFail

ParseSpec == ParseInit /\ [][ParseNext]_vars

(* ------------------------- derived quantities ------------------------- *)
Count(fn) == Cardinality({i \in DOMAIN calls : calls[i].fn = fn})

Terminated == pc \in {"returned", "fault"}

TypeOK ==
  /\ pc \in {"draft", "judge", "check", "revise", "final", "returned", "fault"}
  /\ Len(calls) <= 2 * MaxRounds + 2
  /\ story \in Texts \cup {""}

(* ------------------------- history of the run ------------------------- *)
IsJudge(c) == c.fn = "judge_story"

JudgeCalls == SelectSeq(calls, IsJudge)

LastCall == calls[Len(calls)]

NoBlocking(d) ==
  \/ "blocking_issues" \notin DOMAIN d
  \/ d["blocking_issues"] \in {List(0), Null}

NumericScore(d) ==
  "overall_score" \in DOMAIN d /\ d["overall_score"].ty \in {"num", "numstr"}

(* the k-th evaluation is the first one whose verdict passes *)
FirstPassAt(k) ==
  /\ k \in DOMAIN JudgeCalls
  /\ JudgeCalls[k].out = "pass"
  /\ \A j \in 1..(k - 1) : JudgeCalls[j].out # "pass"

(* C1: a verdict of round r in 1..max_rounds with overall_score >= min_score
   and no blocking issue ends the loop at once: the next step returns that
   round's candidate and verdict with round count r, no service call is
   made by it, and nothing happens after the return. *)
C1_PassingVerdictTerminates ==
  [][/\ (pc = "check" /\ Passing(result.data, min_score)) =>
          /\ r \in 1..max_rounds
          /\ pc' = "returned"
          /\ ret'.state = "ACCEPTED" /\ ret'.story = story
          /\ ret'.verdict = result /\ ret'.rounds = r
          /\ calls' = calls
     /\ pc = "returned" => UNCHANGED vars]_vars

C1_Witness ==
  /\ pc = "returned" /\ ret.state = "ACCEPTED"
  /\ ret.rounds = 1 /\ max_rounds >= 2 /\ Len(calls) = 2

(* C2: a result is returned through the in-loop return only if its verdict
   has overall_score >= min_score and no blocking issue; a verdict with a
   non-empty blocking_issues list is never accepted, and when its score is a
   number, however high, the next step is the revision. *)
C2_AcceptedOnlyIfPassing ==
  [][/\ ret'.state = "ACCEPTED" => Passing(ret'.verdict.data, min_score)
     /\ (pc = "check" /\ ~NoBlocking(result.data)) =>
          /\ pc' # "returned" /\ ret' = NoRet
          /\ NumericScore(result.data) => pc' = "revise"]_vars

C2_Witness ==
  /\ pc = "revise" /\ ~NoBlocking(result.data)
  /\ NumericScore(result.data) /\ result.data["overall_score"].n >= min_score

(* C3: for max_rounds = N >= 1 a run makes at most N revision calls, at most
   N+1 evaluation calls and one drafting call; a run that returns without
   any passing verdict has made exactly N+1 evaluation calls, N revision
   calls and one drafting call. *)
C3_CallBudget ==
  max_rounds >= 1 =>
    /\ Count("revise_story") <= max_rounds
    /\ Count("judge_story") <= max_rounds + 1
    /\ Count("generate_initial_story") <= 1
    /\ (pc = "returned" /\ \A k \in DOMAIN JudgeCalls : JudgeCalls[k].out # "pass") =>
         /\ Count("judge_story") = max_rounds + 1
         /\ Count("revise_story") = max_rounds
         /\ Count("generate_initial_story") = 1

C3_Witness ==
  /\ pc = "returned" /\ max_rounds = 2
  /\ \A k \in DOMAIN JudgeCalls : JudgeCalls[k].out # "pass"
  /\ Count("judge_story") = 3 /\ Count("revise_story") = 2

(* C4 as stated: a revision is produced only in a round r < max_rounds. *)
C4_Original == pc = "revise" => r < max_rounds

(* C4 amended: whenever the acceptance check of round r rejects the verdict,
   the next step is the revision, in every round r in 1..max_rounds, the
   last one (r = max_rounds) included; the step taken from there is a
   revise_story call. *)
C4_RevisionInEveryRound ==
  [][/\ (pc = "check" /\ NumericScore(result.data)
            /\ ~Passing(result.data, min_score)) =>
          /\ r \in 1..max_rounds
          /\ pc' = "revise" /\ r' = r /\ calls' = calls
     /\ pc = "revise" =>
          /\ r \in 1..max_rounds
          /\ Len(calls') = Len(calls) + 1
          /\ calls'[Len(calls')].fn = "revise_story"]_vars

C4_Witness ==
  /\ pc = "final" /\ max_rounds >= 2 /\ r = max_rounds
  /\ LastCall.fn = "revise_story" /\ LastCall.out = "ok"
  /\ Count("revise_story") = max_rounds

(* C5: when the run has ended and the first passing verdict was the k-th
   evaluation, k <= max_rounds, the run returned through the in-loop return
   with round count k, after exactly k evaluation calls and k-1 revision
   calls. *)
C5_FirstPassAtRoundK ==
  \A k \in 1..max_rounds :
    (Terminated /\ FirstPassAt(k)) =>
      /\ pc = "returned" /\ ret.state = "ACCEPTED"
      /\ ret.rounds = k
      /\ Count("judge_story") = k
      /\ Count("revise_story") = k - 1

C5_Witness ==
  /\ pc = "returned" /\ ret.state = "ACCEPTED" /\ ret.rounds = 2
  /\ FirstPassAt(2) /\ Count("revise_story") = 1

(* C6: a run that returns with no passing verdict among its in-loop
   evaluations returns, without fault, the last candidate, the verdict of
   one more evaluation made after the loop, unaltered, and max_rounds. *)
C6_ExhaustedResult ==
  (/\ pc = "returned"
   /\ \A k \in DOMAIN JudgeCalls : k <= max_rounds => JudgeCalls[k].out # "pass") =>
    /\ ret.state = "EXHAUSTED" /\ fault = NoFault
    /\ ret.story = story
    /\ ret.rounds = max_rounds
    /\ ret.verdict.data = lastParsed
    /\ LastCall.fn = "judge_story"
    /\ Len(JudgeCalls) = (IF max_rounds >= 1 THEN max_rounds ELSE 0) + 1

C6_Witness ==
  /\ pc = "returned" /\ ret.state = "EXHAUSTED" /\ max_rounds = 3
  /\ ret.rounds = 3 /\ ~NoBlocking(ret.verdict.data)

(* C7: at every acceptance check and at every return the verdict in hand
   was computed on the current candidate, and the last service call was
   that evaluation: no revision lies between them. *)
C7_VerdictReflectsCandidate ==
  /\ pc = "check" =>
       /\ result.of = storyVer
       /\ LastCall.fn = "judge_story" /\ LastCall.ver = storyVer
  /\ pc = "returned" =>
       /\ ret.verdict.of = storyVer /\ ret.ver = storyVer /\ ret.story = story
       /\ LastCall.fn = "judge_story" /\ LastCall.ver = storyVer

C7_Witness ==
  /\ pc = "returned" /\ ret.state = "EXHAUSTED"
  /\ storyVer = 3 /\ ret.verdict.of = 3 /\ result.of = 2

(* C8: every run ends, with a result or with a fault; the revision calls
   number at most max_rounds and the evaluation after the loop is made at
   most once. *)
C8_Termination ==
  /\ <>Terminated
  /\ [](/\ Count("revise_story") <= (IF max_rounds >= 1 THEN max_rounds ELSE 0)
        /\ Count("judge_story") <= (IF max_rounds >= 1 THEN max_rounds ELSE 0) + 1
        /\ Len(calls) < MaxCalls)

C8_Witness ==
  /\ pc = "returned" /\ max_rounds = MaxRounds
  /\ Count("revise_story") = MaxRounds /\ Count("judge_story") = MaxRounds + 1

(* C9: a fault of any stage ends the run at once: the call that faulted is
   the last call, no result is returned, nothing happens afterwards; and a
   verdict handed to the revision always has the required keys. *)
C9_FaultPropagates ==
  [][/\ pc = "fault" => UNCHANGED vars
     /\ \A i \in DOMAIN calls' : calls'[i].out = "fault" =>
          /\ i = Len(calls') /\ pc' = "fault"
          /\ fault' # NoFault /\ ret' = NoRet
     /\ pc' = "revise" => RequiredKeys \subseteq DOMAIN result'.data]_vars

C9_Witness ==
  /\ pc = "fault" /\ fault.kind = "AssertionError"
  /\ Count("revise_story") = 1 /\ LastCall.out = "fault"

(* C10 as stated: a run ends in a fault only when no verdict has been
   produced in it. *)
C10_Original ==
  pc = "fault" => \A k \in DOMAIN JudgeCalls : JudgeCalls[k].out = "fault"

(* C10 amended: a run that has ended has exactly one of three outcomes: an
   ACCEPTED result, an EXHAUSTED result, both carrying the whole verdict of
   the last evaluation, or a fault without result; the fault can come from
   any stage, also after verdicts have been produced. *)
C10_ExactlyOneOutcome ==
  /\ pc = "returned" =>
       /\ ret.state \in {"ACCEPTED", "EXHAUSTED"} /\ fault = NoFault
       /\ ret.verdict.data = lastParsed
       /\ RequiredKeys \subseteq DOMAIN ret.verdict.data
  /\ pc = "fault" => ret = NoRet /\ fault # NoFault
  /\ ~Terminated => ret = NoRet /\ fault = NoFault

C10_Witness ==
  /\ pc = "fault" /\ fault.kind = "ServiceFault"
  /\ LastCall.fn = "revise_story"
  /\ \E k \in DOMAIN JudgeCalls : JudgeCalls[k].out = "fail"

(* ------------------------- the parsing claims ------------------------- *)
RECURSIVE DropBeforeOpen(_)
DropBeforeOpen(raw) ==
  IF raw = <<>> \/ Head(raw).t = "{" THEN raw ELSE DropBeforeOpen(Tail(raw))

RECURSIVE DropAfterClose(_)
DropAfterClose(raw) ==
  IF raw = <<>> \/ raw[Len(raw)].t = "}" THEN raw
  ELSE DropAfterClose(SubSeq(raw, 1, Len(raw) - 1))

(* the text from the first "{" to the last "}", empty or a lone brace if
   there is no such span *)
SpanOf(raw) == DropAfterClose(DropBeforeOpen(raw))

HasSpan(raw) == Len(SpanOf(raw)) >= 2

Inner(span) == SubSeq(span, 2, Len(span) - 1)

IsObject(span) == \A i \in DOMAIN Inner(span) : Inner(span)[i].t = "pair"

(* json.JSONDecodeError is a subclass of ValueError *)
FaultFamily(kind) == IF kind = "JSONDecodeError" THEN "ValueError" ELSE kind

(* C11 as stated: whenever judge_story's parsing fails (no span, a span
   that is no JSON, or a required key missing), the fault is of one and the
   same kind and carries the first DiagChars characters of the raw
   response. *)
C11_UniformMalformedVerdict ==
  pc = "fault" =>
    /\ FaultFamily(fault.kind) = "ValueError"
    /\ fault.msg = Prefix(reply.raw, DiagChars)

(* C12: judge_story returns a verdict exactly when the text from the first
   "{" to the last "}" is a JSON object with the required keys, and the
   verdict is that object: what stands before the first "{" and after the
   last "}" has no effect, so the response parses as its span alone does. *)
C12_ParsesGreedySpan ==
  pc \in {"parsed", "fault"} =>
    /\ pc = "parsed" <=>
         /\ HasSpan(reply.raw) /\ IsObject(SpanOf(reply.raw))
         /\ RequiredKeys \subseteq DOMAIN ObjectOf(Inner(SpanOf(reply.raw)))
    /\ pc = "parsed" =>
         /\ lastParsed = ObjectOf(Inner(SpanOf(reply.raw)))
         /\ ParseVerdict(SpanOf(reply.raw)).ok
         /\ ParseVerdict(SpanOf(reply.raw)).data = lastParsed

C12_Witness ==
  /\ pc = "parsed"
  /\ Head(reply.raw) = Prose /\ reply.raw[Len(reply.raw)] = Prose
  /\ Len(SpanOf(reply.raw)) = Len(reply.raw) - 4
  /\ lastParsed["overall_score"] = Num(90)

(* ---------------------- the controller, continued --------------------- *)
Called == calls' # calls

WellFormedWithoutBlocking(raw) ==
  /\ HasSpan(raw) /\ IsObject(SpanOf(raw))
  /\ RequiredKeys \subseteq {Inner(SpanOf(raw))[i].k : i \in DOMAIN Inner(SpanOf(raw))}
  /\ \A i \in DOMAIN Inner(SpanOf(raw)) : Inner(SpanOf(raw))[i].k # "blocking_issues"

(* C13: a response whose object has the required keys and no
   blocking_issues key is returned by judge_story as a verdict without that
   key, not as a fault; at the check such a verdict is accepted whenever its
   score is at least min_score; and the feedback payload revise_story sends
   for it has an empty blocking_issues list. *)
C13_MissingBlockingIsEmpty ==
  [][/\ (Called /\ sent'.fn = "judge_story" /\ WellFormedWithoutBlocking(reply'.raw)) =>
          /\ pc' \in {"check", "returned"}
          /\ "blocking_issues" \notin DOMAIN lastParsed'
     /\ (pc = "check" /\ "blocking_issues" \notin DOMAIN result.data
            /\ NumericScore(result.data)
            /\ result.data["overall_score"].n >= min_score) =>
          pc' = "returned" /\ ret'.state = "ACCEPTED" /\ ret'.verdict = result
     /\ (pc = "revise" /\ "blocking_issues" \notin DOMAIN result.data) =>
          /\ sent'.fn = "revise_story"
          /\ sent'.feedback["blocking_issues"] = List(0)]_vars

C13_Witness ==
  /\ sent.fn = "revise_story" /\ LastCall.out = "ok"
  /\ "blocking_issues" \notin DOMAIN result.data
  /\ sent.feedback["blocking_issues"] = List(0)
  /\ sent.feedback["overall_score"] = Num(50)

(* C15 as stated: for every verdict judge_story returns, whatever its
   overall_score, the acceptance check ends without a fault, in an
   acceptance or in a revision. *)
C15_CheckNeverFaults ==
  [][pc = "check" => pc' \in {"returned", "revise"}]_vars

(* C16: the candidate changes only in a drafting or revision step that
   succeeds, where it becomes the text the service returned; an evaluation
   leaves it as it is; user_request, min_score and max_rounds never change;
   the drafting call and every revision call are given the user_request of
   the run, and the revision call the current candidate. *)
C16_Frame ==
  [][/\ Params' = Params
     /\ (story' # story \/ storyVer' # storyVer) =>
          /\ Called /\ sent'.fn \in {"generate_initial_story", "revise_story"}
          /\ calls'[Len(calls')].out = "ok"
          /\ story' = reply'.text /\ storyVer' = storyVer + 1
     /\ (Called /\ sent'.fn = "judge_story") =>
          story' = story /\ storyVer' = storyVer /\ sent'.story = story
     /\ (Called /\ sent'.fn = "revise_story") =>
          sent'.req = user_request /\ sent'.story = story
     /\ (Called /\ sent'.fn = "generate_initial_story") =>
          sent'.req = user_request]_vars

C16_Witness ==
  /\ Count("revise_story") = 2 /\ sent.fn = "revise_story"
  /\ sent.req = "u2" /\ user_request = "u2"
  /\ story # sent.story /\ story = reply.text

(* C17: the drafting call is made once and first; after it evaluation and
   revision calls alternate, an evaluation first; a revision call gets the
   candidate the evaluation before it judged and the verdict of that
   evaluation, which did not pass; and a run that returns made an
   evaluation its last call. *)
C17_CallOrder ==
  /\ \A i \in DOMAIN calls :
       /\ i = 1 => calls[i].fn = "generate_initial_story"
       /\ (i > 1 /\ i % 2 = 0) => calls[i].fn = "judge_story"
       /\ (i > 1 /\ i % 2 = 1) =>
            /\ calls[i].fn = "revise_story"
            /\ calls[i].ver = calls[i - 1].ver
            /\ calls[i].of = calls[i - 1].ver
            /\ calls[i - 1].out = "fail"
       /\ i < Len(calls) => calls[i].out # "fault"
  /\ sent.fn = "revise_story" =>
       sent.feedback["overall_score"] = result.data["overall_score"]
  /\ pc = "returned" => LastCall.fn = "judge_story" /\ LastCall.out # "fault"

C17_Witness ==
  /\ pc = "returned" /\ Len(calls) = 6
  /\ calls[3].fn = "revise_story" /\ calls[5].fn = "revise_story"

(* C18: whatever verdict the evaluation after the loop returns, the run
   returns it with the last candidate and max_rounds; the acceptance
   condition plays no part, so the verdict returned this way may itself
   pass, and the tuple has the round count an acceptance in round
   max_rounds has. *)
C18_FinalVerdictUnchecked ==
  [][(pc = "final" /\ pc' # "fault") =>
       /\ pc' = "returned" /\ ret'.state = "EXHAUSTED"
       /\ ret'.rounds = max_rounds
       /\ ret'.story = story
       /\ ret'.verdict.data = ObjectOf(Inner(SpanOf(reply'.raw)))]_vars

C18_Witness ==
  /\ pc = "returned" /\ ret.state = "EXHAUSTED" /\ max_rounds >= 1
  /\ Passing(ret.verdict.data, min_score) /\ ret.rounds = max_rounds

(* C19: with max_rounds <= 0 no round is run: there is no acceptance
   check, and a run that returns has made one drafting call, one
   evaluation call and no revision call and returns the first candidate,
   that verdict and max_rounds; with max_rounds >= 1 the round count
   returned lies in 1..max_rounds. *)
C19_NoRoundForNonPositive ==
  /\ max_rounds <= 0 =>
       /\ pc \notin {"judge", "check", "revise"}
       /\ pc = "returned" =>
            /\ Count("generate_initial_story") = 1
            /\ Count("judge_story") = 1
            /\ Count("revise_story") = 0
            /\ ret.state = "EXHAUSTED" /\ ret.rounds = max_rounds
            /\ ret.story = story /\ storyVer = 1
            /\ ret.verdict.data = lastParsed
  /\ (max_rounds >= 1 /\ pc = "returned") => ret.rounds \in 1..max_rounds

C19_Witness ==
  /\ pc = "returned" /\ max_rounds = -1 /\ ret.rounds = -1
  /\ Len(calls) = 2 /\ Passing(ret.verdict.data, min_score)
====
